---- MODULE Spec2Model ----
(***************************************************************************)
(* Conway's Game of Life on a toroidal grid with bit-dense cell storage    *)
(* (wasm-game-of-life): BitStore, Universe::idx, live_neighbor_count,      *)
(* set_cells, tick, and the shape library (transform, GLIDER).             *)
(*                                                                         *)
(* A u32 / usize value is modelled by a natural number below 2^31; the     *)
(* one multiplication that can wrap (width*height, y % height * width) is  *)
(* computed modulo 2^32 by U32Mul.                                         *)
(***************************************************************************)
EXTENDS Integers, Sequences, FiniteSets, TLC

VARIABLES
    width, height,   \* Universe.width, Universe.height
    cells,           \* Universe.cells: the bytes of its BitStore
    pre,             \* cells before the last operation
    op,              \* the last operation and its arguments
    status,          \* "ok", or the panic that ended the program
    gen,             \* the number of ticks made, where runs are bounded by it
    store,           \* a BitStore used on its own
    storePre,        \* store before the last operation
    hist,            \* the cells before each of the last ticks, oldest first
    xform            \* a coordinate taken through transform, and the
                     \* transformations chosen

vars == <<width, height, cells, pre, op, status, gen, store, storePre, hist, xform>>

(***************************************************************************)
(* Bounds of the model.                                                    *)
(***************************************************************************)
\* largest width / height / number of cells of the universes explored
\* through every sequence of calls
MaxW == 3
MaxH == 3
MaxCells == 9
\* largest number of cells of the universes a single call is made on
MaxStepCells == 6
\* largest coordinate in a list handed to set_cells (beyond the grid: wraps)
MaxCoord == 2
\* longest coordinate list handed to set_cells / place
MaxLen == 2
\* largest offset handed to place
MaxOff == 1
\* largest width / height of the universes the catalogued patterns are run on
MaxDim == 7
\* largest bit count of a BitStore used on its own
MaxBits == 17
\* most ticks made on a catalogued pattern
MaxTicks == 2
\* largest width / height of a bounding box handed to transform
MaxBox == 3
\* most transform calls a coordinate is taken through
MaxSteps == 2
\* largest number of cells of the universes ticked next to a shifted copy
MaxShiftCells == 9
\* largest width / height of the universes a glider is run on
MaxGliderDim == 7
\* largest width / height of the universes shapes are spawned on
MaxSpawnDim == 5

(***************************************************************************)
(* Arithmetic helpers.                                                     *)
(***************************************************************************)
\* 1 << k for a shift of 0..7
Pow2(k) == <<1, 2, 4, 8, 16, 32, 64, 128>>[k + 1]

\* bitwise AND of two bytes (the & of u8)
RECURSIVE BitAnd(_, _)
BitAnd(a, b) ==
    IF a = 0 \/ b = 0 THEN 0
    ELSE (a % 2) * (b % 2) + 2 * BitAnd(a \div 2, b \div 2)

\* bitwise OR of two bytes (the | of u8)
RECURSIVE BitOr(_, _)
BitOr(a, b) ==
    IF a = 0 THEN b
    ELSE IF b = 0 THEN a
    ELSE (IF a % 2 = 1 \/ b % 2 = 1 THEN 1 ELSE 0) + 2 * BitOr(a \div 2, b \div 2)

\* bitwise NOT of a byte (the ! of u8)
BitNot(a) == 255 - a

\* the k-th base-256 digit of a u32
U32Digit(a, k) ==
    CASE k = 0 -> a % 256
      [] k = 1 -> (a \div 256) % 256
      [] k = 2 -> (a \div 65536) % 256
      [] k = 3 -> (a \div 16777216) % 256

\* a * b modulo 2^32 (wrapping u32 multiplication), by base-256 digits so
\* that no intermediate value leaves the range of the model's integers
U32Mul(a, b) ==
    IF a < 32768 /\ b < 32768 THEN a * b
    ELSE
      LET A(i) == U32Digit(a, i)
          B(i) == U32Digit(b, i)
          c0 == A(0) * B(0)
          c1 == A(0) * B(1) + A(1) * B(0) + (c0 \div 256)
          c2 == A(0) * B(2) + A(1) * B(1) + A(2) * B(0) + (c1 \div 256)
          c3 == A(0) * B(3) + A(1) * B(2) + A(2) * B(1) + A(3) * B(0) + (c2 \div 256)
      IN  (c0 % 256) + 256 * (c1 % 256) + 65536 * (c2 % 256) + 16777216 * (c3 % 256)

(***************************************************************************)
(* BitStore                                                                *)
(***************************************************************************)
\* let mask = 1 << (idx % 8)
MaskMsbFirst(i) == Pow2(7 - (i % 8))
Mask(i) == Pow2(i % 8)

\* self.0[idx/8] is inside the Vec (otherwise the access panics)
InBuffer(s, i) == i \div 8 < Len(s)

BitStore_get(s, i) == BitAnd(s[i \div 8 + 1], Mask(i)) = Mask(i)

BitStore_setAssign(s, i, val) ==
    IF val THEN [s EXCEPT ![i \div 8 + 1] = Mask(i)]
    ELSE [s EXCEPT ![i \div 8 + 1] = BitNot(Mask(i))]
BitStore_set(s, i, val) ==
    IF val THEN [s EXCEPT ![i \div 8 + 1] = BitOr(@, Mask(i))]
    ELSE [s EXCEPT ![i \div 8 + 1] = BitAnd(@, BitNot(Mask(i)))]

BitStore_size(s) == Len(s)

BitStore_emptyFilled(length) ==
    LET rounding == IF length % 8 # 0 THEN 1 ELSE 0
        max == length \div 8 + rounding
    IN  [k \in 1..max |-> 255]
BitStore_empty(length) ==
    LET rounding == IF length % 8 # 0 THEN 1 ELSE 0
        max == length \div 8 + rounding
    IN  [k \in 1..max |-> 0]

(***************************************************************************)
(* Universe: private helpers                                               *)
(***************************************************************************)
idxNoWrapX(w, h, x, y) == U32Mul(y % h, w) + x
idxNoWrapY(w, h, x, y) == U32Mul(y, w) + (x % w)
idx(w, h, x, y) == U32Mul(y % h, w) + (x % w)

\* the arrays [self.height - 1, 0, 1] and [self.width - 1, 0, 1]
NeighborOffsetsFullTurn(n) == <<n, 0, 1>>
NeighborOffsets(n) == <<n - 1, 0, 1>>

\* the (xo, yo) pairs the two nested loops go through, yo outermost
AllOffsetPairs(w, h) ==
    [k \in 1..9 |-> <<NeighborOffsets(w)[((k - 1) % 3) + 1],
                      NeighborOffsets(h)[((k - 1) \div 3) + 1]>>]

\* ... without those the `continue` skips (xo == 0 && yo == 0)
CountedOffsetPairsNoSkip(w, h) == AllOffsetPairs(w, h)
CountedOffsetPairs(w, h) ==
    SelectSeq(AllOffsetPairs(w, h), LAMBDA p : ~(p[1] = 0 /\ p[2] = 0))

\* the bit indices live_neighbor_count reads, in order; x.wrapping_add(xo)
\* is the plain sum here: x < w and xo < w stay below 2^31 in this model
NeighborIdxs(w, h, x, y) ==
    LET ps == CountedOffsetPairs(w, h)
    IN  [k \in 1..Len(ps) |-> idx(w, h, x + ps[k][1], y + ps[k][2])]

RECURSIVE CountLive(_, _, _)
CountLive(s, is, k) ==
    IF k > Len(is) THEN 0
    ELSE (IF BitStore_get(s, is[k]) THEN 1 ELSE 0) + CountLive(s, is, k + 1)

\* live_neighbor_count panics when one of its reads is outside the buffer
live_neighbor_count_ok(w, h, s, x, y) ==
    LET is == NeighborIdxs(w, h, x, y)
    IN  \A k \in 1..Len(is) : InBuffer(s, is[k])

live_neighbor_count(w, h, s, x, y) == CountLive(s, NeighborIdxs(w, h, x, y), 1)

\* set_cells: the cells are set one by one, in place; a panic leaves the
\* earlier writes in the store
RECURSIVE set_cells(_, _, _, _, _)
set_cells(w, h, s, coords, k) ==
    IF k > Len(coords) THEN [status |-> "ok", cells |-> s]
    ELSE LET i == idx(w, h, coords[k][1], coords[k][2])
         IN  IF ~InBuffer(s, i) THEN [status |-> "bounds", cells |-> s]
             ELSE set_cells(w, h, BitStore_set(s, i, TRUE), coords, k + 1)

(***************************************************************************)
(* Universe: tick                                                          *)
(***************************************************************************)
\* the match of tick: what is written to next for a cell
RuleNoBirth(alive, n) ==
    IF alive /\ n < 2 THEN "clear"
    ELSE IF alive /\ n > 3 THEN "clear"
    ELSE "keep"
RuleNoUnderpopulation(alive, n) ==
    IF alive /\ n > 3 THEN "clear"
    ELSE IF ~alive /\ n = 3 THEN "set"
    ELSE "keep"
RuleNoOverpopulation(alive, n) ==
    IF alive /\ n < 2 THEN "clear"
    ELSE IF ~alive /\ n = 3 THEN "set"
    ELSE "keep"
Rule(alive, n) ==
    IF alive /\ n < 2 THEN "clear"
    ELSE IF alive /\ n > 3 THEN "clear"
    ELSE IF ~alive /\ n = 3 THEN "set"
    ELSE "keep"

\* the body of the two loops of tick for one cell: reads self.cells (cur),
\* writes next
TickCellInPlace(w, h, cur, next, x, y) ==
    LET i == idx(w, h, x, y)
        r == Rule(BitStore_get(next, i), live_neighbor_count(w, h, next, x, y))
    IN  CASE r = "clear" -> BitStore_set(next, i, FALSE)
          [] r = "set"   -> BitStore_set(next, i, TRUE)
          [] OTHER       -> next
TickCell(w, h, cur, next, x, y) ==
    LET i == idx(w, h, x, y)
        r == Rule(BitStore_get(cur, i), live_neighbor_count(w, h, cur, x, y))
    IN  CASE r = "clear" -> BitStore_set(next, i, FALSE)
          [] r = "set"   -> BitStore_set(next, i, TRUE)
          [] OTHER       -> next

\* a cell's step panics when one of its accesses is outside the buffer
TickCellOk(w, h, cur, x, y) ==
    /\ live_neighbor_count_ok(w, h, cur, x, y)
    /\ InBuffer(cur, idx(w, h, x, y))

\* for x in 0..width { ... } of row y, from column x on.  A panic unwinds
\* before self.cells = next: self.cells keeps its value.
RECURSIVE tick_row(_, _, _, _, _, _)
tick_row(w, h, cur, next, x, y) ==
    IF x >= w THEN [status |-> "ok", cells |-> next]
    ELSE IF ~TickCellOk(w, h, cur, x, y) THEN [status |-> "bounds", cells |-> cur]
    ELSE tick_row(w, h, cur, TickCell(w, h, cur, next, x, y), x + 1, y)

\* for y in 0..height { ... }, from row y on; then self.cells = next
RECURSIVE tick_loop(_, _, _, _, _)
tick_loop(w, h, cur, next, y) ==
    IF y >= h THEN [status |-> "ok", cells |-> next]
    ELSE LET row == tick_row(w, h, cur, next, 0, y)
         IN  IF row.status # "ok" THEN row
             ELSE tick_loop(w, h, cur, row.cells, y + 1)

\* let mut next = self.cells.clone(); the loops; self.cells = next
tick_resultNoSwap(w, h, s) == [status |-> tick_loop(w, h, s, s, 0).status, cells |-> s]
tick_result(w, h, s) == tick_loop(w, h, s, s, 0)

\* #[derive(PartialEq)] of Universe and of BitStore: the widths, the
\* heights and the bytes are equal
Universe_eq(w1, h1, s1, w2, h2, s2) == w1 = w2 /\ h1 = h2 /\ s1 = s2

\* the in-range coordinates of a w x h grid
Grid(w, h) == (0..(w - 1)) \X (0..(h - 1))

(***************************************************************************)
(* Universe: place (not in lib.rs; used by tests/web.rs)                   *)
(***************************************************************************)
\* place(coordinates, x_offset, y_offset): every coordinate, moved by the
\* offset and wrapped, is set alive
RECURSIVE place(_, _, _, _, _, _, _)
place(w, h, s, coords, xo, yo, k) ==
    IF k > Len(coords) THEN [status |-> "ok", cells |-> s]
    ELSE LET i == idx(w, h, coords[k][1] + xo, coords[k][2] + yo)
         IN  IF ~InBuffer(s, i) THEN [status |-> "bounds", cells |-> s]
             ELSE place(w, h, BitStore_set(s, i, TRUE), coords, xo, yo, k + 1)

(***************************************************************************)
(* State machine                                                           *)
(***************************************************************************)
OpRec(name, coords, xo, yo, i, val) ==
    [name |-> name, coords |-> coords, xoff |-> xo, yoff |-> yo,
     idx |-> i, val |-> val]

NoStore ==
    /\ store = <<>>
    /\ storePre = <<>>

\* no coordinate has been transformed and no transformation chosen
NoShape ==
    xform = [w |-> 0, h |-> 0, from |-> <<0, 0>>, to |-> <<0, 0>>,
             ts |-> <<>>, status |-> "none"]

\* a universe as its constructor (name) leaves it
NewUniverse(w, h, s, name) ==
    /\ width = w
    /\ height = h
    /\ cells = s
    /\ pre = s
    /\ op = OpRec(name, <<>>, 0, 0, 0, FALSE)
    /\ status = "ok"
    /\ gen = 0
    /\ hist = <<>>

\* Universe::empty(width, height); width*height is a u32 multiplication
Universe_empty(w, h) ==
    /\ NewUniverse(w, h, BitStore_empty(U32Mul(w, h)), "empty")
    /\ NoStore
    /\ NoShape

\* universe.set_cells(coords); log says whether op keeps the argument
DoSetCells(coords, log) ==
    /\ status = "ok"
    /\ LET r == set_cells(width, height, cells, coords, 1)
       IN  /\ cells' = r.cells
           /\ status' = r.status
    /\ pre' = cells
    /\ op' = OpRec("set_cells", IF log THEN coords ELSE <<>>, 0, 0, 0, FALSE)
    /\ UNCHANGED <<width, height, store, storePre, xform>>

\* universe.place(coords, xo, yo)
DoPlace(coords, xo, yo) ==
    /\ status = "ok"
    /\ LET r == place(width, height, cells, coords, xo, yo, 1)
       IN  /\ cells' = r.cells
           /\ status' = r.status
    /\ pre' = cells
    /\ op' = OpRec("place", coords, xo, yo, 0, FALSE)
    /\ UNCHANGED <<width, height, store, storePre, xform>>

\* universe.tick()
DoTick ==
    /\ status = "ok"
    /\ LET r == tick_result(width, height, cells)
       IN  /\ cells' = r.cells
           /\ status' = r.status
    /\ pre' = cells
    /\ op' = OpRec("tick", <<>>, 0, 0, 0, FALSE)
    /\ UNCHANGED <<width, height, store, storePre, xform>>

(***************************************************************************)
(* Spec: a universe of at most MaxW x MaxH and at most MaxCells cells,      *)
(* built by empty, then any sequence of set_cells(&[(x, y)]) and tick.     *)
(***************************************************************************)
\* the widths and heights of the universes of at most n cells
Dims(n) == {d \in (1..MaxW) \X (1..MaxH) : d[1] * d[2] <= n}

\* the coordinates handed to set_cells: the grid and one step beyond it
Coords == (0..MaxW) \X (0..MaxH)

Init == \E d \in Dims(MaxCells) : Universe_empty(d[1], d[2])

SetCell == \E c \in Coords : DoSetCells(<<c>>, FALSE) /\ UNCHANGED <<gen, hist>>

Tick == DoTick /\ UNCHANGED <<gen, hist>>

Next == SetCell \/ Tick

Spec == Init /\ [][Next]_vars

(***************************************************************************)
(* SpecStep: one set_cells or place call, with a list of up to MaxLen      *)
(* coordinates, on a universe of at most MaxStepCells cells built the way  *)
(* the tests build theirs: empty, then set_cells of some of its cells.     *)
(***************************************************************************)
CoordLists == UNION {[1..n -> (0..MaxCoord) \X (0..MaxCoord)] : n \in 0..MaxLen}

\* the cells of the grid in row order
AllCells(w, h) == [k \in 1..(w * h) |-> <<(k - 1) % w, (k - 1) \div w>>]

\* pub const GLIDER (shape.rs) and the literal lists of tests/web.rs
GLIDER == <<<<0, 0>>, <<1, 0>>, <<0, 1>>, <<2, 1>>, <<0, 2>>>>
BLINKER == <<<<1, 0>>, <<1, 1>>, <<1, 2>>>>
BLINKER_TICKED == <<<<0, 1>>, <<1, 1>>, <<2, 1>>>>
SPACESHIP == <<<<1, 2>>, <<2, 3>>, <<3, 1>>, <<3, 2>>, <<3, 3>>>>
SPACESHIP_TICKED == <<<<2, 1>>, <<2, 3>>, <<3, 2>>, <<3, 3>>, <<4, 2>>>>

Shapes == {GLIDER, BLINKER, BLINKER_TICKED, SPACESHIP, SPACESHIP_TICKED}

InitStep ==
    \E d \in Dims(MaxStepCells) :
        \E live \in SUBSET Grid(d[1], d[2]) :
            /\ NewUniverse(d[1], d[2],
                   set_cells(d[1], d[2], BitStore_empty(U32Mul(d[1], d[2])),
                             SelectSeq(AllCells(d[1], d[2]), LAMBDA c : c \in live), 1).cells,
                   "built")
            /\ NoStore
            /\ NoShape

StepSetCells ==
    /\ op.name = "built"
    /\ \E coords \in CoordLists : DoSetCells(coords, TRUE)
    /\ UNCHANGED <<gen, hist>>

StepPlace ==
    /\ op.name = "built"
    /\ \E shape \in Shapes, xo \in 0..MaxOff, yo \in 0..MaxOff : DoPlace(shape, xo, yo)
    /\ UNCHANGED <<gen, hist>>

NextStep == StepSetCells \/ StepPlace

SpecStep == InitStep /\ [][NextStep]_vars

(***************************************************************************)
(* SpecPatterns: a catalogued pattern, or a single cell, set on a fresh    *)
(* universe of at most MaxDim x MaxDim cells, then up to MaxTicks ticks.   *)
(***************************************************************************)
SingleCells == {<<c>> : c \in (0..(MaxDim - 1)) \X (0..(MaxDim - 1))}

InitPatterns == \E w \in 1..MaxDim, h \in 1..MaxDim : Universe_empty(w, h)

SetPattern ==
    /\ op.name = "empty"
    /\ \E coords \in Shapes \cup SingleCells : DoSetCells(coords, TRUE)
    /\ UNCHANGED <<gen, hist>>

TickPattern ==
    /\ gen < MaxTicks
    /\ DoTick
    /\ gen' = gen + 1
    /\ UNCHANGED hist

NextPatterns == SetPattern \/ TickPattern

SpecPatterns == InitPatterns /\ [][NextPatterns]_vars

(***************************************************************************)
(* SpecStore: one set on a BitStore of at most MaxBits bits, as            *)
(* BitStore::random leaves it (bytes drawn from ByteSamples).              *)
(***************************************************************************)
ByteSamples == {0, 1, 2, 85, 128, 170, 254, 255}

\* BitStore::random(length), the random bytes drawn from ByteSamples
BitStore_random(length) ==
    LET rounding == IF length % 8 # 0 THEN 1 ELSE 0
        max == length \div 8 + rounding
    IN  [1..max -> ByteSamples]

InitStore ==
    /\ NewUniverse(1, 1, BitStore_empty(1), "random")
    /\ NoShape
    /\ \E length \in 0..MaxBits : store \in BitStore_random(length)
    /\ storePre = store

\* store.set(i, val); an index outside the buffer panics
StoreSet ==
    /\ op.name = "random"
    /\ status = "ok"
    /\ \E i \in 0..(MaxBits + 7), val \in BOOLEAN :
           /\ IF InBuffer(store, i)
                  THEN store' = BitStore_set(store, i, val) /\ status' = "ok"
                  ELSE store' = store /\ status' = "bounds"
           /\ op' = OpRec("set", <<>>, 0, 0, i, val)
    /\ storePre' = store
    /\ UNCHANGED <<width, height, cells, pre, gen, hist, xform>>

NextStore == StoreSet

SpecStore == InitStore /\ [][NextStore]_vars

(***************************************************************************)
(* SpecWide: as Spec, and also a universe whose width*height does not fit  *)
(* a u32.  A build with overflow checks panics in empty(); a build without *)
(* them wraps the product and allocates the wrapped number of bits.        *)
(***************************************************************************)
WideDims == {<<4, 1073741825>>}

\* the digits above the low 32 bits of a * b are not all 0
U32MulOverflows(a, b) ==
    LET A(i) == U32Digit(a, i)
        B(i) == U32Digit(b, i)
        c0 == A(0) * B(0)
        c1 == A(0) * B(1) + A(1) * B(0) + (c0 \div 256)
        c2 == A(0) * B(2) + A(1) * B(1) + A(2) * B(0) + (c1 \div 256)
        c3 == A(0) * B(3) + A(1) * B(2) + A(2) * B(1) + A(3) * B(0) + (c2 \div 256)
        c4 == A(1) * B(3) + A(2) * B(2) + A(3) * B(1) + (c3 \div 256)
        c5 == A(2) * B(3) + A(3) * B(2) + (c4 \div 256)
        c6 == A(3) * B(3) + (c5 \div 256)
    IN  c4 % 256 # 0 \/ c5 % 256 # 0 \/ c6 # 0

\* Universe::empty in a build with overflow checks, width*height too large
Universe_empty_overflow(w, h) ==
    /\ width = w
    /\ height = h
    /\ cells = <<>>
    /\ pre = <<>>
    /\ op = OpRec("empty", <<>>, 0, 0, 0, FALSE)
    /\ status = "overflow"
    /\ gen = 0
    /\ hist = <<>>
    /\ NoStore
    /\ NoShape

InitWide ==
    \/ Init
    \/ \E d \in WideDims :
           \/ Universe_empty(d[1], d[2])
           \/ U32MulOverflows(d[1], d[2]) /\ Universe_empty_overflow(d[1], d[2])

SpecWide == InitWide /\ [][Next]_vars

(***************************************************************************)
(* SpecShift: a universe of at most MaxShiftCells cells with any of its    *)
(* cells set; a second universe is built with the same cells moved by      *)
(* (a, b), and ticked.  hist keeps the cells of the first universe.        *)
(***************************************************************************)
\* a coordinate list moved by (xo, yo), not wrapped
Moved(coords, xo, yo) ==
    [k \in 1..Len(coords) |-> <<coords[k][1] + xo, coords[k][2] + yo>>]

\* the live cells of a universe, in row order
LiveList(w, h, s) ==
    SelectSeq(AllCells(w, h), LAMBDA c : BitStore_get(s, idx(w, h, c[1], c[2])))

InitShift ==
    \E d \in Dims(MaxShiftCells) :
        \E live \in SUBSET Grid(d[1], d[2]) :
            /\ NewUniverse(d[1], d[2],
                   set_cells(d[1], d[2], BitStore_empty(U32Mul(d[1], d[2])),
                             SelectSeq(AllCells(d[1], d[2]), LAMBDA c : c \in live), 1).cells,
                   "built")
            /\ NoStore
            /\ NoShape

\* Universe::empty(width, height), then set_cells of the live cells of the
\* first universe moved by (a, b)
BuildShifted ==
    /\ op.name = "built"
    /\ status = "ok"
    /\ \E c \in Grid(width, height) :
           LET r == set_cells(width, height, BitStore_empty(U32Mul(width, height)),
                              Moved(LiveList(width, height, cells), c[1], c[2]), 1)
           IN  /\ cells' = r.cells
               /\ status' = r.status
               /\ op' = OpRec("shifted", <<>>, c[1], c[2], 0, FALSE)
    /\ pre' = cells
    /\ hist' = <<cells>>
    /\ UNCHANGED <<width, height, gen, store, storePre, xform>>

\* tick() of the second universe
TickShifted ==
    /\ op.name = "shifted"
    /\ status = "ok"
    /\ LET r == tick_result(width, height, cells)
       IN  /\ cells' = r.cells
           /\ status' = r.status
    /\ pre' = cells
    /\ op' = [op EXCEPT !.name = "tick_shifted"]
    /\ UNCHANGED <<width, height, gen, store, storePre, hist, xform>>

NextShift == BuildShifted \/ TickShifted

SpecShift == InitShift /\ [][NextShift]_vars

(***************************************************************************)
(* SpecGlider: the GLIDER of the catalogue set at any position of an empty *)
(* universe of 6 x 6 to MaxGliderDim x MaxGliderDim, then any number of    *)
(* ticks; hist keeps the cells of the 4 generations before the last tick.  *)
(***************************************************************************)
InitGlider == \E w \in 6..MaxGliderDim, h \in 6..MaxGliderDim : Universe_empty(w, h)

\* universe.set_cells of the GLIDER moved to (xo, yo)
SetGlider ==
    /\ op.name = "empty"
    /\ \E c \in Grid(width, height) : DoSetCells(Moved(GLIDER, c[1], c[2]), FALSE)
    /\ UNCHANGED <<gen, hist>>

\* universe.tick(), the generation it leaves kept in hist
TickGlider ==
    /\ op.name # "empty"
    /\ DoTick
    /\ hist' = IF Len(hist) < 4 THEN Append(hist, cells)
                ELSE Append(Tail(hist), cells)
    /\ UNCHANGED gen

NextGlider == SetGlider \/ TickGlider

SpecGlider == InitGlider /\ [][NextGlider]_vars

(***************************************************************************)
(* Shape library: transform                                                *)
(***************************************************************************)
Transformations == {"Identity", "RotateLeft", "RotateRight", "Reflect"}

\* a - b of two u32.  Where a < b the difference is negative here: it stands
\* for the wrapped value 2^32 + (a - b) of a build without overflow checks,
\* which the model's integers cannot hold.
U32Sub(a, b) == a - b

\* the coordinate transform returns
transformTransposeLeft(c, w, h, t) ==
    CASE t = "Identity"    -> c
      [] t = "RotateRight" -> <<U32Sub(U32Sub(h, c[2]), 1), c[1]>>
      [] t = "Reflect"     -> <<U32Sub(U32Sub(w, c[1]), 1), U32Sub(U32Sub(h, 1), c[2])>>
      [] t = "RotateLeft"  -> <<c[2], c[1]>>
transformReflectNoStep(c, w, h, t) ==
    CASE t = "Identity"    -> c
      [] t = "RotateRight" -> <<U32Sub(U32Sub(h, c[2]), 1), c[1]>>
      [] t = "Reflect"     -> <<U32Sub(w, c[1]), U32Sub(h, c[2])>>
      [] t = "RotateLeft"  -> <<c[2], U32Sub(U32Sub(w, c[1]), 1)>>
transformRightAsLeft(c, w, h, t) ==
    CASE t = "Identity"    -> c
      [] t = "RotateRight" -> <<c[2], U32Sub(U32Sub(w, c[1]), 1)>>
      [] t = "Reflect"     -> <<U32Sub(U32Sub(w, c[1]), 1), U32Sub(U32Sub(h, 1), c[2])>>
      [] t = "RotateLeft"  -> <<c[2], U32Sub(U32Sub(w, c[1]), 1)>>
transform(c, w, h, t) ==
    CASE t = "Identity"    -> c
      [] t = "RotateRight" -> <<U32Sub(U32Sub(h, c[2]), 1), c[1]>>
      [] t = "Reflect"     -> <<U32Sub(U32Sub(w, c[1]), 1), U32Sub(U32Sub(h, 1), c[2])>>
      [] t = "RotateLeft"  -> <<c[2], U32Sub(U32Sub(w, c[1]), 1)>>

\* one of the subtractions of transform goes below 0; every operand is a
\* natural number, so the last difference of a chain is negative exactly
\* when one of the chain is
transform_underflows(c, w, h, t) ==
    \/ transform(c, w, h, t)[1] < 0
    \/ transform(c, w, h, t)[2] < 0

(***************************************************************************)
(* SpecShape: a coordinate of a box of at most MaxBox x MaxBox taken       *)
(* through up to MaxSteps calls of transform with that box.  An underflow  *)
(* panics in a build with overflow checks and wraps in one without.        *)
(***************************************************************************)
InitShape ==
    /\ NewUniverse(1, 1, BitStore_empty(1), "shape")
    /\ NoStore
    /\ \E w \in 1..MaxBox, h \in 1..MaxBox :
           \E c \in Grid(w, h) :
               xform = [w |-> w, h |-> h, from |-> c, to |-> c,
                        ts |-> <<>>, status |-> "ok"]

\* transform(xform.to, w, h, t)
Transform ==
    /\ xform.status = "ok"
    /\ Len(xform.ts) < MaxSteps
    /\ \E t \in Transformations :
           LET r == transform(xform.to, xform.w, xform.h, t)
           IN  IF ~transform_underflows(xform.to, xform.w, xform.h, t)
                   THEN xform' = [xform EXCEPT !.to = r, !.ts = Append(@, t)]
                   ELSE \/ xform' = [xform EXCEPT !.ts = Append(@, t),
                                                  !.status = "panic"]
                        \/ xform' = [xform EXCEPT !.to = r, !.ts = Append(@, t),
                                                  !.status = "wrapped"]
    /\ UNCHANGED <<width, height, cells, pre, op, status, gen, store, storePre, hist>>

NextShape == Transform

SpecShape == InitShape /\ [][NextShape]_vars

(***************************************************************************)
(* Universe: spawn_shape_at (not in lib.rs).  SpecSpawn: a glider spawned  *)
(* at any target with any transformation on a universe of 3 x 3 to         *)
(* MaxSpawnDim x MaxSpawnDim that is empty or has one cell set.            *)
(***************************************************************************)
\* every glider coordinate mapped through t against the 3 x 3 box
TransformedGlider(t) == [k \in 1..Len(GLIDER) |-> transform(GLIDER[k], 3, 3, t)]

\* spawn_shape_at(x, y) with the transformation t picked: the transformed
\* glider is placed at the offset (-1, -1) from the target, -1 written
\* as width - 1 (height - 1) as live_neighbor_count writes it
spawn_shape_at(w, h, s, x, y, t) ==
    place(w, h, s, TransformedGlider(t), x + (w - 1), y + (h - 1), 1)

InitSpawn == \E w \in 3..MaxSpawnDim, h \in 3..MaxSpawnDim : Universe_empty(w, h)

\* universe.set_cells(&[(x, y)]) on the empty universe
SpawnSetCell ==
    /\ op.name = "empty"
    /\ \E c \in Grid(width, height) : DoSetCells(<<c>>, FALSE)
    /\ UNCHANGED <<gen, hist>>

\* universe.spawn_shape_at(x, y), Transformation::random() giving t
Spawn ==
    /\ status = "ok"
    /\ op.name # "spawn_shape_at"
    /\ \E c \in Grid(width, height), t \in Transformations :
           /\ LET r == spawn_shape_at(width, height, cells, c[1], c[2], t)
              IN  /\ cells' = r.cells
                  /\ status' = r.status
           /\ op' = OpRec("spawn_shape_at", <<>>, c[1], c[2], 0, FALSE)
           /\ xform' = [w |-> 3, h |-> 3, from |-> <<0, 0>>, to |-> <<0, 0>>,
                        ts |-> <<t>>, status |-> "ok"]
    /\ pre' = cells
    /\ UNCHANGED <<width, height, gen, store, storePre, hist>>

NextSpawn == SpawnSetCell \/ Spawn

SpecSpawn == InitSpawn /\ [][NextSpawn]_vars

(***************************************************************************)
(* Vocabulary of the properties                                            *)
(***************************************************************************)
\* the cell (x, y) is alive in store s, as the universe itself reads it
Alive(w, h, s, c) == BitStore_get(s, idx(w, h, c[1], c[2]))

LiveCells(w, h, s) == {c \in Grid(w, h) : Alive(w, h, s, c)}

\* what a host reading the raw bytes sees for linear bit i, LSB first
ExposedBit(s, i) == (s[(i \div 8) + 1] \div Pow2(i % 8)) % 2 = 1

\* the neighbour count of the pre-tick generation
Lnc(s, c) == live_neighbor_count(width, height, s, c[1], c[2])

\* Conway's rule for one cell
Conway(wasAlive, n) == (wasAlive /\ n \in {2, 3}) \/ (~wasAlive /\ n = 3)

\* C1: after tick() every cell is alive exactly when Conway's rule, applied
\* to its state and its neighbour count in the generation before the tick,
\* says so; cells updated earlier in the same tick have no influence.
TickAppliesConwayRule ==
    (op.name = "tick" /\ status = "ok") =>
        \A c \in Grid(width, height) :
            Alive(width, height, cells, c)
                <=> Conway(Alive(width, height, pre, c), Lnc(pre, c))

\* a tick in which one cell was born and another died
TickBirthAndDeath ==
    /\ op.name = "tick"
    /\ status = "ok"
    /\ \E c \in Grid(width, height) :
           ~Alive(width, height, pre, c) /\ Alive(width, height, cells, c)
    /\ \E c \in Grid(width, height) :
           Alive(width, height, pre, c) /\ ~Alive(width, height, cells, c)

\* the buffer s with linear bit i, LSB first, turned on
WithExposedBit(s, i) ==
    [s EXCEPT ![(i \div 8) + 1] = IF ExposedBit(s, i) THEN @ ELSE @ + Pow2(i % 8)]

\* C2: the exposed buffer holds cell (x, y) at linear bit y*width + x, LSB
\* first, which is the bit the universe's own get(idx(x, y)) reads; what
\* set_cells(&[(x, y)]) changes in the buffer is exactly that bit of the
\* wrapped cell, turned on; empty() exposes all zero bytes.
BufferEncodesCellsLsbFirst ==
    status = "ok" =>
        /\ Len(cells) * 8 >= width * height
        /\ \A c \in Grid(width, height) :
               Alive(width, height, cells, c)
                   <=> ExposedBit(cells, c[2] * width + c[1])
        /\ op.name = "empty" => \A k \in 1..Len(cells) : cells[k] = 0
        /\ op.name = "set_cells" =>
               \E c \in Coords :
                   cells = WithExposedBit(pre, (c[2] % height) * width + (c[1] % width))

\* a cell beyond the first byte is the only live one and shows in the buffer
SecondByteCellExposed ==
    /\ status = "ok"
    /\ op.name = "set_cells"
    /\ width * height > 8
    /\ cells = <<0, 1>>
    /\ LiveCells(width, height, cells) = {<<2, 2>>}

\* the eight signed offsets of the Moore neighbourhood
MooreOffsets == {d \in {-1, 0, 1} \X {-1, 0, 1} : d # <<0, 0>>}

\* the cell a signed offset leads to on the torus
Wrapped(w, h, c, d) == <<(c[1] + d[1] + w) % w, (c[2] + d[2] + h) % h>>

\* the offset as the code holds it: -1 is width - 1 (height - 1)
Unsigned(d, n) == IF d = -1 THEN n - 1 ELSE d

\* the offsets of the Moore neighbourhood whose cell is alive
LiveOffsets(w, h, s, c, ds) ==
    {d \in ds : ExposedBit(s, Wrapped(w, h, c, d)[2] * w + Wrapped(w, h, c, d)[1])}

CountedMooreOffsets(w, h) ==
    {d \in MooreOffsets : ~(Unsigned(d[1], w) = 0 /\ Unsigned(d[2], h) = 0)}

NeighborCountWithinEight ==
    status = "ok" => \A c \in Grid(width, height) : Lnc(cells, c) \in 0..8

\* every cell of a 3 x 3 grid alive: each count is 8
AllNeighboursAlive ==
    /\ status = "ok"
    /\ width = 3
    /\ height = 3
    /\ LiveCells(width, height, cells) = Grid(width, height)
    /\ \A c \in Grid(width, height) : Lnc(cells, c) = 8

\* the coordinates a list holds
ToSet(coords) == {coords[k] : k \in 1..Len(coords)}

\* C3: on a grid of at least 4 x 4, the vertical line (1,0),(1,1),(1,2)
\* alone becomes, after one tick, exactly the horizontal line
\* (0,1),(1,1),(2,1).
BlinkerTurns ==
    (/\ op.name = "tick"
     /\ status = "ok"
     /\ width >= 4
     /\ height >= 4
     /\ LiveCells(width, height, pre) = ToSet(BLINKER))
        => LiveCells(width, height, cells) = ToSet(BLINKER_TICKED)

\* the 4 x 4 universe of test_cross_tick after its tick
BlinkerTurnedOnFourByFour ==
    /\ op.name = "tick"
    /\ status = "ok"
    /\ width = 4
    /\ height = 4
    /\ gen = 1
    /\ LiveCells(width, height, pre) = ToSet(BLINKER)
    /\ LiveCells(width, height, cells) = ToSet(BLINKER_TICKED)

\* the universe built from empty(w, h) by setting the cells of a list
Built(w, h, coords) == set_cells(w, h, BitStore_empty(U32Mul(w, h)), coords, 1).cells

\* C4: on a grid of at least 6 x 6, the five cells (1,2),(2,3),(3,1),(3,2),
\* (3,3) alone become, after one tick, exactly (2,1),(2,3),(3,2),(3,3),(4,2),
\* and the universe equals the one built from empty with these five cells.
SpaceshipSteps ==
    (/\ op.name = "tick"
     /\ status = "ok"
     /\ width >= 6
     /\ height >= 6
     /\ LiveCells(width, height, pre) = ToSet(SPACESHIP))
        => /\ LiveCells(width, height, cells) = ToSet(SPACESHIP_TICKED)
           /\ cells = Built(width, height, SPACESHIP_TICKED)

\* the 6 x 6 universe of test_spaceship_tick after its tick
SpaceshipSteppedOnSixBySix ==
    /\ op.name = "tick"
    /\ status = "ok"
    /\ width = 6
    /\ height = 6
    /\ gen = 1
    /\ pre = Built(6, 6, SPACESHIP)
    /\ cells = Built(6, 6, SPACESHIP_TICKED)

\* C5: a universe with exactly one live cell, wherever it is, is entirely
\* dead after one tick, on the 1 x 1 grid and on every grid of at least
\* 3 x 3.
LoneCellDies ==
    (/\ op.name = "tick"
     /\ status = "ok"
     /\ (width = 1 /\ height = 1) \/ (width >= 3 /\ height >= 3)
     /\ Cardinality(LiveCells(width, height, pre)) = 1)
        => LiveCells(width, height, cells) = {}

\* a lone cell in the far corner of a 3 x 5 grid has died
LoneCornerCellDied ==
    /\ op.name = "tick"
    /\ status = "ok"
    /\ width = 3
    /\ height = 5
    /\ LiveCells(width, height, pre) = {<<2, 4>>}
    /\ LiveCells(width, height, cells) = {}

\* C6: after set(i, v) on a store whose buffer holds byte i/8, get(i) is v,
\* every other bit reads as before, and no other byte has changed.
SetThenGet ==
    (op.name = "set" /\ status = "ok") =>
        /\ BitStore_get(store, op.idx) = op.val
        /\ Len(store) = Len(storePre)
        /\ \A j \in 0..(8 * Len(store) - 1) :
               j # op.idx => BitStore_get(store, j) = BitStore_get(storePre, j)
        /\ \A k \in 1..Len(store) :
               k # (op.idx \div 8) + 1 => store[k] = storePre[k]

\* bit 3 of the second byte cleared, its seven other bits left set
BitClearedInSecondByte ==
    /\ op.name = "set"
    /\ status = "ok"
    /\ op.idx = 11
    /\ ~op.val
    /\ storePre = <<170, 255, 85>>
    /\ store = <<170, 247, 85>>

\* C7: set_cells and place only add: the cells alive before stay alive, a
\* dead cell becomes alive exactly when it is the wrapped image
\* ((x + x_offset) mod width, (y + y_offset) mod height) of a listed
\* coordinate, and the same call made again changes nothing.
PlacementOnlyAdds ==
    (op.name \in {"set_cells", "place"} /\ status = "ok") =>
        LET images == {<<(c[1] + op.xoff) % width, (c[2] + op.yoff) % height>> :
                           c \in ToSet(op.coords)}
            again == IF op.name = "set_cells"
                         THEN set_cells(width, height, cells, op.coords, 1)
                         ELSE place(width, height, cells, op.coords, op.xoff, op.yoff, 1)
        IN  /\ LiveCells(width, height, pre) \subseteq LiveCells(width, height, cells)
            /\ LiveCells(width, height, cells) \ LiveCells(width, height, pre)
                   = images \ LiveCells(width, height, pre)
            /\ again.status = "ok"
            /\ again.cells = cells

\* set_cells of (2,2), which wraps onto the live cell (0,0) of a 2 x 2 grid,
\* and of the dead cell (1,0); the live cell (1,1) is not listed
WrappedAndFreshCellSet ==
    /\ op.name = "set_cells"
    /\ status = "ok"
    /\ width = 2
    /\ height = 2
    /\ op.coords = <<<<2, 2>>, <<1, 0>>>>
    /\ LiveCells(width, height, pre) = {<<0, 0>>, <<1, 1>>}
    /\ LiveCells(width, height, cells) = {<<0, 0>>, <<1, 1>>, <<1, 0>>}

\* C10: no get or set made by tick, live_neighbor_count or set_cells
\* addresses a byte outside the buffer, whatever the width and height.
NoAccessOutsideBuffer == status # "bounds"

\* Universe::cells_size
cells_size == BitStore_size(cells)

\* ceil(w*h / 8), computed so that no intermediate value leaves the range
\* of the model's integers
CeilBytes(w, h) == w * (h \div 8) + ((w * (h % 8) + 7) \div 8)

\* C11: cells_size is ceil(width*height / 8) from construction on and stays
\* so after every tick and placement; width and height never change.
BufferLengthIsCeil ==
    /\ [](status = "ok" => cells_size = CeilBytes(width, height))
    /\ [][width' = width /\ height' = height]_vars

\* C12 as stated: in every box, square or not, RotateLeft then RotateRight,
\* RotateRight then RotateLeft, and Reflect twice, all with the same box,
\* give back the coordinate.
RoundTripsInEveryBox ==
    xform.ts \in {<<"RotateLeft", "RotateRight">>, <<"RotateRight", "RotateLeft">>,
                  <<"Reflect", "Reflect">>}
        => xform.status = "ok" /\ xform.to = xform.from

\* C12 amended: RotateLeft then RotateRight and RotateRight then RotateLeft
\* give back the coordinate in every square box; Reflect twice gives it back
\* in every box, square or not.
RoundTripsInSquareBox ==
    /\ (/\ xform.ts \in {<<"RotateLeft", "RotateRight">>, <<"RotateRight", "RotateLeft">>}
        /\ xform.w = xform.h)
           => xform.status = "ok" /\ xform.to = xform.from
    /\ xform.ts = <<"Reflect", "Reflect">>
           => xform.status = "ok" /\ xform.to = xform.from

\* the corner (2, 0) of a 3 x 3 box turned left, then right
CornerTurnedLeftThenRight ==
    /\ xform.ts = <<"RotateLeft", "RotateRight">>
    /\ xform.w = 3
    /\ xform.h = 3
    /\ xform.from = <<2, 0>>
    /\ xform.to = <<2, 0>>
    /\ xform.status = "ok"

\* transform with t is one-to-one from the w x h box onto the set box
OneToOneOnto(w, h, t, box) ==
    /\ \A c \in Grid(w, h) :
           ~transform_underflows(c, w, h, t) /\ transform(c, w, h, t) \in box
    /\ \A c, d \in Grid(w, h) :
           c # d => transform(c, w, h, t) # transform(d, w, h, t)
    /\ \A e \in box : \E c \in Grid(w, h) : transform(c, w, h, t) = e

\* C13 as stated: in every box, square or not, each transformation maps
\* the box one-to-one onto the same box, without underflow.
TransformOntoSameBox ==
    Len(xform.ts) = 1 =>
        /\ xform.status = "ok"
        /\ xform.to \in Grid(xform.w, xform.h)
        /\ OneToOneOnto(xform.w, xform.h, xform.ts[1], Grid(xform.w, xform.h))

\* the box a transformation maps the w x h box onto
TurnedBox(w, h, t) ==
    IF t \in {"RotateLeft", "RotateRight"} THEN Grid(h, w) ELSE Grid(w, h)

\* C13 amended: without underflow, Identity and Reflect map the w x h box
\* one-to-one onto itself and RotateLeft and RotateRight map it one-to-one
\* onto the h x w box, which is the same box exactly when it is square.
TransformOntoTurnedBox ==
    Len(xform.ts) = 1 =>
        /\ xform.status = "ok"
        /\ xform.to \in TurnedBox(xform.w, xform.h, xform.ts[1])
        /\ OneToOneOnto(xform.w, xform.h, xform.ts[1],
                        TurnedBox(xform.w, xform.h, xform.ts[1]))
        /\ (Grid(xform.h, xform.w) = Grid(xform.w, xform.h)) <=> (xform.w = xform.h)

\* a coordinate of the flat 3 x 1 box turned left: its image (0, 2) is in
\* the 1 x 3 box and not in the 3 x 1 box
TurnedLeftOutOfFlatBox ==
    /\ xform.ts = <<"RotateLeft">>
    /\ xform.w = 3
    /\ xform.h = 1
    /\ xform.from = <<0, 0>>
    /\ xform.to = <<0, 2>>
    /\ xform.status = "ok"

\* the glider of the catalogue turned by each transformation in its 3 x 3
\* box, written out
GliderTurned(t) ==
    CASE t = "Identity"    -> {<<0, 0>>, <<1, 0>>, <<0, 1>>, <<2, 1>>, <<0, 2>>}
      [] t = "RotateRight" -> {<<2, 0>>, <<2, 1>>, <<1, 0>>, <<1, 2>>, <<0, 0>>}
      [] t = "Reflect"     -> {<<2, 2>>, <<1, 2>>, <<2, 1>>, <<0, 1>>, <<2, 0>>}
      [] t = "RotateLeft"  -> {<<0, 2>>, <<0, 1>>, <<1, 2>>, <<1, 0>>, <<2, 2>>}

\* the cells spawn_shape_at(x, y) is to set: the turned glider moved so that
\* the middle of its box is on the target, wrapped
SpawnedCells(w, h, x, y, t) ==
    {<<(x + c[1] + w - 1) % w, (y + c[2] + h - 1) % h>> : c \in GliderTurned(t)}

\* the 3 x 3 block centred on (x, y), wrapped
BlockAround(w, h, x, y) ==
    {Wrapped(w, h, <<x, y>>, d) : d \in {-1, 0, 1} \X {-1, 0, 1}}

\* C14: on every grid of at least 3 x 3, spawn_shape_at(x, y) at any target
\* of the grid, the edges included, with any of the four transformations,
\* sets exactly the 5 cells of the transformed glider moved by (x - 1, y - 1)
\* and wrapped, all in the 3 x 3 block centred on the target, and clears
\* no cell: on an empty universe exactly these 5 cells are alive.
SpawnSetsTurnedGlider ==
    op.name = "spawn_shape_at" =>
        LET spawned == SpawnedCells(width, height, op.xoff, op.yoff, xform.ts[1])
        IN  /\ status = "ok"
            /\ Cardinality(spawned) = 5
            /\ spawned \subseteq BlockAround(width, height, op.xoff, op.yoff)
            /\ LiveCells(width, height, cells)
                   = LiveCells(width, height, pre) \cup spawned
            /\ LiveCells(width, height, pre) = {}
                   => Cardinality(LiveCells(width, height, cells)) = 5

\* a glider turned left and spawned at the corner (0, 0) of the empty
\* 3 x 4 universe: it reaches over both edges
TurnedGliderSpawnedAtCorner ==
    /\ op.name = "spawn_shape_at"
    /\ status = "ok"
    /\ width = 3
    /\ height = 4
    /\ op.xoff = 0
    /\ op.yoff = 0
    /\ xform.ts = <<"RotateLeft">>
    /\ LiveCells(width, height, pre) = {}
    /\ LiveCells(width, height, cells)
           = {<<2, 1>>, <<2, 0>>, <<0, 1>>, <<0, 3>>, <<1, 1>>}

\* a set of cells moved by the signed step d, wrapped
Shifted(w, h, live, d) == {Wrapped(w, h, c, d) : c \in live}

\* the four diagonal unit steps
DiagonalSteps == {<<1, 1>>, <<1, -1>>, <<-1, 1>>, <<-1, -1>>}

\* C15: the GLIDER set at any position of an empty grid of at least 6 x 6
\* has exactly 5 live cells in every generation, and the live cells of every
\* generation are those of 4 ticks earlier moved by one cell along both
\* axes, wrapped; no tick leaves the live cells as they were.
GliderGlides ==
    op.name # "empty" =>
        /\ status = "ok"
        /\ Cardinality(LiveCells(width, height, cells)) = 5
        /\ op.name = "tick" =>
               LiveCells(width, height, cells) # LiveCells(width, height, pre)
        /\ Len(hist) = 4 =>
               \E d \in DiagonalSteps :
                   LiveCells(width, height, cells)
                       = Shifted(width, height, LiveCells(width, height, hist[1]), d)

\* four ticks after the GLIDER was set at (0, 0) of the 6 x 7 universe: it
\* has moved by (-1, -1), over both edges
GliderMovedOnce ==
    /\ op.name = "tick"
    /\ status = "ok"
    /\ width = 6
    /\ height = 7
    /\ Len(hist) = 4
    /\ hist[1] = Built(6, 7, GLIDER)
    /\ cells = Built(6, 7, Moved(GLIDER, 5, 6))

PaddingBits(w, h, s) == (w * h)..(8 * Len(s) - 1)

\* C17: in every universe reached from empty by set_cells and tick, every
\* padding bit is 0, so the universe equals (derived ==) the one built from
\* empty with the same width, height and live cells: equal liveness means
\* equal universes (and equal universes have equal liveness, which is read
\* from the width, the height and the bytes alone).
PaddingStaysZero ==
    status = "ok" =>
        /\ \A i \in PaddingBits(width, height, cells) : ~ExposedBit(cells, i)
        /\ Universe_eq(width, height, cells, width, height,
                       Built(width, height, LiveList(width, height, cells)))

\* a tick has filled the 3 x 3 grid: 9 live cells, 7 padding bits still 0
TickFilledGridPaddingZero ==
    /\ op.name = "tick"
    /\ status = "ok"
    /\ width = 3
    /\ height = 3
    /\ LiveCells(width, height, pre) = {<<0, 0>>, <<1, 0>>, <<2, 0>>}
    /\ cells = <<255, 1>>

====
